---- MODULE Spec2Model ----
(***************************************************************************)
(* Model of the kite tick collector (src/kite_manual.py), with the driver  *)
(* loop and flush of its first-half variant (src/kite_ws1.py) and the SQL  *)
(* text both build from a table name.                                      *)
(*                                                                         *)
(* Two threads share tick_store under one non-reentrant threading.Lock:    *)
(*   - the feed thread, which runs on_ticks once per tick batch;           *)
(*   - the main thread, which runs the driver loop, save_to_db_batch and   *)
(*     graceful_shutdown.  Python runs signal handlers on the main thread, *)
(*     between two of its bytecodes, so the main thread is a call stack    *)
(*     on which a signal pushes a graceful_shutdown frame.                 *)
(*                                                                         *)
(* Time is one integer clock read by time.time() and datetime.now(); the   *)
(* time-of-day constants are scaled to a short day.  Prices are integers,  *)
(* averages are kept in hundredths (round(x, 2)).                          *)
(***************************************************************************)
EXTENDS Integers, Sequences, FiniteSets, TLC

\* ------------------------------------------------------------- constants
\* Program constants, in the model's time unit (the source's values are
\* 19800 s, 20 samples, 20 s, 09:15, 15:30 and, in kite_ws1.py, 12:00).
MAX_RUNTIME == 5
ROLLING_WINDOW == 3
SAVE_INTERVAL == 2
MARKET_START == 1
MARKET_END == 6
WS1_END == 4

\* Bounds of the model.
MaxTime == 6         \* the clock runs over 0..MaxTime
MaxDrift == 1        \* clock advances in one run other than by time.sleep
MaxTicks == 2        \* Spec: ticks delivered by the feed in one run
MaxSignals == 1      \* Spec: SIGTERM/SIGINT deliveries in one run
MaxFailures == 1     \* Spec: storage operations that fail in one run
MaxAggTicks == 4     \* SpecAgg: ticks delivered by the feed
MaxSigSignals == 2   \* SpecSig: SIGTERM/SIGINT deliveries
MaxSigTicks == 1     \* SpecSig: ticks delivered by the feed
MaxSymbolLen == 2    \* SpecSql: characters of a trading symbol

\* The process starts before the session or at its first instant.
StartTimes == {0, MARKET_START}

\* ---------------------------------------------------------------- inputs
\* Instrument tokens: 1 is in the loaded universe, 2 is not.
Tokens == {1, 2}

token_to_symbol == (1 :> "RELIANCE")

Tick(tok, p, v, b, s) ==
    [instrument_token |-> tok, last_price |-> p, volume_traded |-> v,
     total_buy_quantity |-> b, total_sell_quantity |-> s]

\* The ticks the feed can deliver.
Ticks ==
    { Tick(1, 100, 7, 10, 30), Tick(1, 101, 8, 20, 50), Tick(2, 200, 9, 40, 60) }

\* A batch handed to on_ticks: one or two ticks.
Batches == { <<t>> : t \in Ticks } \cup { <<t, u>> : t \in Ticks, u \in Ticks }

Max(S) == CHOOSE x \in S : \A y \in S : y <= x
Min2(a, b) == IF a < b THEN a ELSE b

RECURSIVE Sum(_)
Sum(q) == IF q = <<>> THEN 0 ELSE Head(q) + Sum(Tail(q))

\* ------------------------------------------------------------ the store
\* Python's None, for a price or volume not set yet: outside every value.
None == -1

\* defaultdict factory: the entry of a token that has not ticked yet.
NewEntry == [ltp |-> None, volume |-> None, buy_qty |-> <<>>, sell_qty |-> <<>>]

\* deque(maxlen = ROLLING_WINDOW).append(x): the oldest value leaves first.
DequeAppendUnbounded(q, x) == Append(q, x)
DequeAppend(q, x) ==
    IF Len(q) < ROLLING_WINDOW THEN Append(q, x) ELSE Append(Tail(q), x)

\* round(s / n, 2) in hundredths; Python rounds an exact tie to the even digit.
Round2(s, n) ==
    LET q == (100 * s) \div n
        r == (100 * s) % n
    IN  IF 2 * r < n THEN q
        ELSE IF 2 * r > n THEN q + 1
        ELSE IF q % 2 = 0 THEN q ELSE q + 1

\* avg_buy / avg_sell of save_to_db_batch: 0 for an empty window.
Avg(q) == IF q = <<>> THEN 0 ELSE Round2(Sum(q), Len(q))

\* tick_store[token] of a defaultdict: the entry, made by the factory if absent.
Entry(store, tok) == IF tok \in DOMAIN store THEN store[tok] ELSE NewEntry

\* The body of on_ticks' loop for one tick (lines 160-165).
Ingest(store, t) ==
    LET tok == t.instrument_token
        e   == Entry(store, tok)
    IN  [x \in DOMAIN store \cup {tok} |->
            IF x # tok THEN store[x]
            ELSE [ltp      |-> t.last_price,
                  volume   |-> t.volume_traded,
                  buy_qty  |-> DequeAppend(e.buy_qty, t.total_buy_quantity),
                  sell_qty |-> DequeAppend(e.sell_qty, t.total_sell_quantity)]]

\* ---------------------------------------------------------------- clock
is_market_open(t) == MARKET_START <= t /\ t < MARKET_END

is_market_closed(t) == t >= MARKET_END

\* kite_ws1.py's phase function (its session ends at 12:00).
market_phase(t) ==
    IF t < MARKET_START THEN "PRE"
    ELSE IF MARKET_START <= t /\ t < WS1_END THEN "LIVE"
    ELSE "POST"

\* The driver loop's checks of one poll, in their order, at one clock value.
RuntimeExceededLate(t, start) == t - start > MAX_RUNTIME
RuntimeExceeded(t, start) == t - start >= MAX_RUNTIME

Phase(t, start) ==
    IF RuntimeExceeded(t, start) THEN "POST"
    ELSE IF is_market_closed(t) THEN "POST"
    ELSE IF is_market_open(t) THEN "LIVE"
    ELSE "PRE"


\* ---------------------------------------------------------------- state
VARIABLES
    now,             \* the clock: time.time() and datetime.now(IST)
    START_TIME,      \* kite_manual.py:25
    last_save_time,  \* kite_manual.py:55
    tick_store,      \* token -> entry, for the tokens that have ticked
    order,           \* the tokens of tick_store in insertion order (dict order)
    lock,            \* holder of threading.Lock: "free", "main" or "feed"
    shutdown_event,  \* threading.Event
    stack,           \* the main thread's call stack, innermost frame last
    exit,            \* how the process ended: "running", "exit0", "error", "loop_end"
    feedBatch,       \* the ticks on_ticks still has to apply; <<>> when idle
    db,              \* the committed rows of DB_FILE, in commit order
    log,             \* the error lines printed so far
    nForced,         \* calls of save_to_db_batch(force=True)
    nClose,          \* calls of kws.close()
    nSignals,        \* signals delivered
    nFailures,       \* storage operations that failed
    nTicks,          \* ticks applied by on_ticks
    budget,          \* what this run's environment may do: ticks, signals, failures
    attempts,        \* the flush attempts that passed the gate, in order: the
                     \* gate's reading, then what the attempt found under the lock
                     \* (seen: how many ticks of each token had been applied)
    lastCall,        \* the gate's latest decision
    failed,          \* the attempts (by number) ended by a storage error
    hist,            \* token -> the ticks applied for it, oldest first
    nDrift,          \* clock advances other than by time.sleep
    sql              \* the statements built from table names, and what
                     \* sqlite made of them (specification SpecSql)

vars == <<now, START_TIME, last_save_time, tick_store, order, lock,
          shutdown_event, stack, exit, feedBatch, db, log, nForced, nClose,
          nSignals, nFailures, nTicks, budget, attempts, lastCall, failed, hist,
          nDrift, sql>>

\* ---------------------------------------------------------------- frames
\* One record shape for every frame; a frame uses the fields of its function.
\*   main:              pc in loop, runtime, closed, save, sleep, fatal;
\*                      t = the clock value its runtime check read
\*   graceful_shutdown: pc in flush, close, set; reason
\*   save_to_db_batch:  pc in gate, lock, connect, row, commit, finish;
\*                      force, i (position in tick_store.items()), rows (the
\*                      open transaction), conn, locked, batch (attempt
\*                      number), t (the gate's clock value = last_save_time
\*                      it set), prev (last_save_time before the gate)
Frame(fn, pc) ==
    [fn |-> fn, pc |-> pc, reason |-> "", force |-> FALSE, i |-> 0,
     rows |-> <<>>, conn |-> FALSE, locked |-> FALSE, batch |-> 0,
     t |-> 0, prev |-> 0]

MainFrame(pc) == Frame("main", pc)
GsFrame(reason) == [Frame("graceful_shutdown", "flush") EXCEPT !.reason = reason]
SaveFrame(force) == [Frame("save_to_db_batch", "gate") EXCEPT !.force = force]

Alive == stack # <<>>
Top == stack[Len(stack)]
SetTop(f) == [stack EXCEPT ![Len(stack)] = f]
Push(f) == Append(stack, f)
TopIs(fn, pc) == Alive /\ Top.fn = fn /\ Top.pc = pc

\* The statement after a call of save_to_db_batch returns: time.sleep after
\* the driver loop's periodic call, kws.close() after a forced call.
AfterCall(c) == IF c.fn = "main" /\ c.pc = "save" THEN "sleep" ELSE "close"

Return(s) ==
    LET rest == SubSeq(s, 1, Len(s) - 1)
    IN  [rest EXCEPT ![Len(rest)].pc = AfterCall(rest[Len(rest)])]

\* The statements of the driver loop inside its try block (lines 195-209).
TryPcs == {"loop", "runtime", "closed", "save", "sleep"}

\* Which frame's except clause takes an exception passing through it.
\*   graceful_shutdown 129-132: except Exception around the forced flush
\*   graceful_shutdown 134-138: bare except around kws.close()
\*   __main__ 194-213:          except Exception around the loop
CatchesNoFlushHandler(f, exc) ==
    \/ f.fn = "graceful_shutdown" /\ f.pc = "close"
    \/ f.fn = "main" /\ f.pc \in TryPcs /\ exc = "Exception"
Catches(f, exc) ==
    \/ f.fn = "graceful_shutdown" /\ f.pc = "flush" /\ exc = "Exception"
    \/ f.fn = "graceful_shutdown" /\ f.pc = "close"
    \/ f.fn = "main" /\ f.pc \in TryPcs /\ exc = "Exception"

HandlerPc(f) ==
    IF f.fn = "main" THEN "fatal"
    ELSE IF f.pc = "flush" THEN "close" ELSE "set"

Catchers(s, exc) == { k \in 1..Len(s) : Catches(s[k], exc) }

\* The stack after exc is raised in the innermost frame: unwound to the
\* innermost frame that catches it, or empty when nothing does.
Raise(s, exc) ==
    IF Catchers(s, exc) = {} THEN <<>>
    ELSE LET k == Max(Catchers(s, exc))
         IN  [SubSeq(s, 1, k) EXCEPT ![k].pc = HandlerPc(s[k])]

\* What the catching frame prints (lines 132 and 212).
RaiseLog(s, exc) ==
    IF Catchers(s, exc) = {} THEN {}
    ELSE LET c == s[Max(Catchers(s, exc))]
         IN  IF c.fn = "main" THEN {"Fatal error"}
             ELSE IF c.pc = "flush" THEN {"DB flush error"} ELSE {}

\* "with lock" enters its block only when no thread holds the lock.
LockIgnored(l) == TRUE
LockFree(l) == l = "free"

\* "with lock" releases the lock when its frame is unwound.
HoldsLock(s) == \E k \in 1..Len(s) : s[k].locked
LockAfter(s) == IF lock = "main" /\ ~HoldsLock(s) THEN "free" ELSE lock

ExitAfter(s, exc) ==
    IF s # <<>> THEN exit
    ELSE IF exc = "SystemExit" THEN "exit0" ELSE "error"

\* ------------------------------------------------------------- the rows
Digits == <<"0", "1", "2", "3", "4", "5", "6", "7", "8", "9">>

RECURSIVE Str(_)
Str(n) == IF n < 10 THEN Digits[n + 1] ELSE Str(n \div 10) \o Digits[(n % 10) + 1]

\* token_to_symbol.get(token, str(token))
TableName(tok) ==
    IF tok \in DOMAIN token_to_symbol THEN token_to_symbol[tok] ELSE Str(tok)

\* The row of one iteration of the loop at lines 89-118.  token, batch, force
\* and gate are not columns: they record which flush attempt wrote the row.
RowOfFactory(f, tok, data, clock) ==
    [table |-> TableName(tok), timestamp |-> clock, ltp |-> NewEntry.ltp,
     volume |-> NewEntry.volume, avg_buy_qty |-> Avg(data.buy_qty),
     avg_sell_qty |-> Avg(data.sell_qty),
     token |-> tok, batch |-> f.batch, force |-> f.force, gate |-> f.t]
Row(f, tok, data, clock) ==
    [table |-> TableName(tok), timestamp |-> clock, ltp |-> data.ltp,
     volume |-> data.volume, avg_buy_qty |-> Avg(data.buy_qty),
     avg_sell_qty |-> Avg(data.sell_qty),
     token |-> tok, batch |-> f.batch, force |-> f.force, gate |-> f.t]

\* c.execute(INSERT ...): the row joins the connection's open transaction.
ExecInsertTwice(f, d, row) ==
    [frame |-> [f EXCEPT !.rows = @ \o <<row, row>>], db |-> d]
ExecInsertAutocommit(f, d, row) == [frame |-> f, db |-> Append(d, row)]
ExecInsert(f, d, row) ==
    [frame |-> [f EXCEPT !.rows = Append(@, row)], db |-> d]

\* conn.commit(): the transaction's rows become durable together.
Commit(f, d) == d \o f.rows

\* The gate of save_to_db_batch (lines 73-78).
GatePassesIgnoreForce(force, t, last) ==
    is_market_open(t) /\ t - last >= SAVE_INTERVAL
GatePassesNoInterval(force, t, last) ==
    force \/ is_market_open(t)
GatePasses(force, t, last) ==
    /\ force \/ is_market_open(t)
    /\ force \/ t - last >= SAVE_INTERVAL

\* Line 80: last_save_time after the gate, whatever the write does later.
LastSaveOnSuccessOnly(pass, t, last) == last
LastSaveAfterGate(pass, t, last) == IF pass THEN t ELSE last

\* Before the first call of save_to_db_batch.
NoCall ==
    [force |-> FALSE, t |-> 0, prev |-> 0, passed |-> FALSE, found |-> 0,
     outcome |-> "waiting", lost |-> 0, seen |-> [tok \in Tokens |-> 0]]

\* ----------------------------------------------------------------- Init
\* Line 55: last_save_time = time.time() when the module is loaded, which the
\* model's clock does not tell apart from START_TIME (line 25).
LastSaveLongAgo(start) == start - SAVE_INTERVAL
LastSaveAtStart(start) == start

\* The state when the driver loop is entered (line 194): the feed is
\* connected, nothing has ticked, last_save_time is the start time.
StateAtLoop(b) ==
    /\ START_TIME \in StartTimes
    /\ now = START_TIME
    /\ last_save_time = LastSaveAtStart(START_TIME)
    /\ tick_store = <<>>
    /\ order = <<>>
    /\ lock = "free"
    /\ shutdown_event = FALSE
    /\ stack = <<MainFrame("loop")>>
    /\ exit = "running"
    /\ feedBatch = <<>>
    /\ db = <<>>
    /\ log = {}
    /\ nForced = 0
    /\ nClose = 0
    /\ nSignals = 0
    /\ nFailures = 0
    /\ nTicks = 0
    /\ budget = b
    /\ attempts = <<>>
    /\ lastCall = NoCall
    /\ failed = {}
    /\ hist = [tok \in Tokens |-> <<>>]
    /\ nDrift = 0

\* No statement has been built yet.
NoSql == [universe |-> <<>>, i |-> 1, pc |-> "create", schema |-> {}, rows |-> <<>>]

InitWith(b) == StateAtLoop(b) /\ sql = NoSql

Budget(t, sg, f) == [ticks |-> t, signals |-> sg, failures |-> f]

Init == InitWith(Budget(MaxTicks, MaxSignals, MaxFailures))

\* ---------------------------------------------------------------- clock
\* Time passes between any two steps of any thread, not only in time.sleep.
ClockTick ==
    /\ Alive
    /\ now < MaxTime
    /\ nDrift < MaxDrift
    /\ nDrift' = nDrift + 1
    /\ now' = now + 1
    /\ UNCHANGED <<START_TIME, sql, last_save_time, tick_store, order, lock,
                   shutdown_event, stack, exit, feedBatch, db, log, nForced,
                   nClose, nSignals, nFailures, nTicks, budget, attempts, lastCall,
                   failed, hist>>

\* ------------------------------------------------------- the feed thread
\* on_ticks, line 158: the feed thread takes the lock for a batch.  The feed
\* delivers nothing after kws.close().
OnTicksAcquire ==
    /\ Alive
    /\ nClose = 0
    /\ LockFree(lock)
    /\ feedBatch = <<>>
    /\ \E b \in Batches :
        /\ nTicks + Len(b) <= budget.ticks
        /\ feedBatch' = b
    /\ lock' = "feed"
    /\ UNCHANGED <<now, START_TIME, sql, last_save_time, tick_store, order,
                   shutdown_event, stack, exit, db, log, nForced, nClose,
                   nSignals, nFailures, nTicks, budget, attempts, lastCall, failed,
                   hist, nDrift>>

\* on_ticks, lines 159-165: one iteration of the loop over the batch.
OnTicksApply ==
    /\ Alive
    /\ lock = "feed"
    /\ feedBatch # <<>>
    /\ LET t == Head(feedBatch)
           tok == t.instrument_token
       IN  /\ tick_store' = Ingest(tick_store, t)
           /\ order' = IF tok \in DOMAIN tick_store THEN order ELSE Append(order, tok)
           /\ hist' = [hist EXCEPT ![tok] = Append(@, t)]
    /\ feedBatch' = Tail(feedBatch)
    /\ nTicks' = nTicks + 1
    /\ UNCHANGED <<now, START_TIME, sql, last_save_time, lock, shutdown_event,
                   stack, exit, db, log, nForced, nClose, nSignals, nFailures,
                   budget, attempts, lastCall, failed, nDrift>>

\* on_ticks: the end of the with block.
OnTicksRelease ==
    /\ Alive
    /\ lock = "feed"
    /\ feedBatch = <<>>
    /\ lock' = "free"
    /\ UNCHANGED <<now, START_TIME, sql, last_save_time, tick_store, order,
                   shutdown_event, stack, exit, feedBatch, db, log, nForced,
                   nClose, nSignals, nFailures, nTicks, budget, attempts, lastCall,
                   failed, hist, nDrift>>

\* ------------------------------------------------------- the driver loop
\* Line 195: while not shutdown_event.is_set().
MainLoop ==
    /\ TopIs("main", "loop")
    /\ IF shutdown_event
       THEN stack' = <<>> /\ exit' = "loop_end"
       ELSE stack' = SetTop([Top EXCEPT !.pc = "runtime"]) /\ exit' = exit
    /\ UNCHANGED <<now, START_TIME, sql, last_save_time, tick_store, order, lock,
                   shutdown_event, feedBatch, db, log, nForced, nClose,
                   nSignals, nFailures, nTicks, budget, attempts, lastCall, failed,
                   hist, nDrift>>

\* Lines 196-200: the backup runtime limit.
MainRuntime ==
    /\ TopIs("main", "runtime")
    /\ IF RuntimeExceeded(now, START_TIME)
       THEN stack' = Append(SetTop([Top EXCEPT !.t = now]),
                            GsFrame("max runtime reached"))
       ELSE stack' = SetTop([Top EXCEPT !.pc = "closed", !.t = now])
    /\ UNCHANGED <<now, START_TIME, sql, last_save_time, tick_store, order, lock,
                   shutdown_event, exit, feedBatch, db, log, nForced, nClose,
                   nSignals, nFailures, nTicks, budget, attempts, lastCall, failed,
                   hist, nDrift>>

\* Lines 203-204: the market close.
MainClosed ==
    /\ TopIs("main", "closed")
    /\ IF is_market_closed(now)
       THEN stack' = Push(GsFrame("market closed"))
       ELSE stack' = SetTop([Top EXCEPT !.pc = "save"])
    /\ UNCHANGED <<now, START_TIME, sql, last_save_time, tick_store, order, lock,
                   shutdown_event, exit, feedBatch, db, log, nForced, nClose,
                   nSignals, nFailures, nTicks, budget, attempts, lastCall, failed,
                   hist, nDrift>>

\* Line 207: the periodic flush.
MainSave ==
    /\ TopIs("main", "save")
    /\ stack' = Push(SaveFrame(FALSE))
    /\ UNCHANGED <<now, START_TIME, sql, last_save_time, tick_store, order, lock,
                   shutdown_event, exit, feedBatch, db, log, nForced, nClose,
                   nSignals, nFailures, nTicks, budget, attempts, lastCall, failed,
                   hist, nDrift>>

\* Line 209: time.sleep(1) returns after the clock has advanced.
MainSleep ==
    /\ TopIs("main", "sleep")
    /\ now' = Min2(now + 1, MaxTime)
    /\ stack' = SetTop([Top EXCEPT !.pc = "loop"])
    /\ UNCHANGED <<START_TIME, sql, last_save_time, tick_store, order, lock,
                   shutdown_event, exit, feedBatch, db, log, nForced, nClose,
                   nSignals, nFailures, nTicks, budget, attempts, lastCall, failed,
                   hist, nDrift>>

\* Lines 211-213: the loop's except clause.
MainFatal ==
    /\ TopIs("main", "fatal")
    /\ stack' = Push(GsFrame("exception"))
    /\ UNCHANGED <<now, START_TIME, sql, last_save_time, tick_store, order, lock,
                   shutdown_event, exit, feedBatch, db, log, nForced, nClose,
                   nSignals, nFailures, nTicks, budget, attempts, lastCall, failed,
                   hist, nDrift>>

\* ---------------------------------------------------- graceful_shutdown
\* Lines 144-148: a SIGTERM or SIGINT runs signal_handler on the main thread,
\* on top of whatever the main thread is doing.
Signal ==
    /\ Alive
    /\ nSignals < budget.signals
    /\ nSignals' = nSignals + 1
    /\ stack' = Push(GsFrame("SIGTERM / SIGINT"))
    /\ UNCHANGED <<now, START_TIME, sql, last_save_time, tick_store, order, lock,
                   shutdown_event, exit, feedBatch, db, log, nForced, nClose,
                   nFailures, nTicks, budget, attempts, lastCall, failed, hist, nDrift>>

\* Lines 129-130: the forced flush.
GsFlush ==
    /\ TopIs("graceful_shutdown", "flush")
    /\ stack' = Push(SaveFrame(TRUE))
    /\ nForced' = nForced + 1
    /\ UNCHANGED <<now, START_TIME, sql, last_save_time, tick_store, order, lock,
                   shutdown_event, exit, feedBatch, db, log, nClose, nSignals,
                   nFailures, nTicks, budget, attempts, lastCall, failed, hist, nDrift>>

\* Lines 134-136: kws.close().
GsClose ==
    /\ TopIs("graceful_shutdown", "close")
    /\ nClose' = nClose + 1
    /\ stack' = SetTop([Top EXCEPT !.pc = "set"])
    /\ UNCHANGED <<now, START_TIME, sql, last_save_time, tick_store, order, lock,
                   shutdown_event, exit, feedBatch, db, log, nForced, nSignals,
                   nFailures, nTicks, budget, attempts, lastCall, failed, hist, nDrift>>

\* Lines 140-142: shutdown_event.set(), then sys.exit(0) raises SystemExit
\* on the main thread.
GsExit ==
    /\ TopIs("graceful_shutdown", "set")
    /\ shutdown_event' = TRUE
    /\ stack' = Raise(stack, "SystemExit")
    /\ lock' = LockAfter(stack')
    /\ exit' = ExitAfter(stack', "SystemExit")
    /\ log' = log \cup RaiseLog(stack, "SystemExit")
    /\ UNCHANGED <<now, START_TIME, sql, last_save_time, tick_store, order,
                   feedBatch, db, nForced, nClose, nSignals,
                   nFailures, nTicks, budget, attempts, lastCall, failed, hist, nDrift>>

\* ----------------------------------------------------- save_to_db_batch
\* Line 83, "if not tick_store", on the store's keys.
StoreNeverEmpty(keys) == FALSE
StoreEmpty(keys) == keys = <<>>

\* The gate; a call that passes it sets last_save_time (line 80).
GateStep(pass) ==
    /\ LET call == [force |-> Top.force, t |-> now, prev |-> last_save_time,
                    passed |-> pass, found |-> 0, outcome |-> "waiting",
                    lost |-> 0, seen |-> NoCall.seen]
       IN  /\ lastCall' = call
           /\ IF pass
              THEN /\ last_save_time' = LastSaveAfterGate(pass, now, last_save_time)
                   /\ attempts' = Append(attempts, call)
                   /\ stack' = SetTop([Top EXCEPT !.pc = "lock", !.t = now,
                                                  !.prev = last_save_time,
                                                  !.batch = Len(attempts) + 1])
              ELSE /\ stack' = Return(stack)
                   /\ UNCHANGED <<last_save_time, attempts>>
    /\ UNCHANGED <<now, START_TIME, sql, tick_store, order, lock, shutdown_event,
                   exit, feedBatch, db, log, nForced, nClose, nSignals,
                   nFailures, nTicks, budget, failed, hist, nDrift>>

\* Lines 73-80.
SaveGate ==
    /\ TopIs("save_to_db_batch", "gate")
    /\ GateStep(GatePasses(Top.force, now, last_save_time))

\* Lines 82-84: "with lock" blocks until the lock is free; an empty store
\* ends the call inside the with block.  The attempt records what it found.
SaveLock ==
    /\ TopIs("save_to_db_batch", "lock")
    /\ LockFree(lock)
    /\ IF StoreEmpty(order)
       THEN stack' = Return(stack) /\ lock' = "free"
       ELSE /\ stack' = SetTop([Top EXCEPT !.pc = "connect", !.locked = TRUE])
            /\ lock' = "main"
    /\ attempts' = [attempts EXCEPT ![Top.batch].found = Len(order),
                                    ![Top.batch].seen =
                                        [tok \in Tokens |-> Len(hist[tok])],
                                    ![Top.batch].outcome =
                                        IF StoreEmpty(order) THEN "nothing" ELSE "connect"]
    /\ UNCHANGED <<now, START_TIME, sql, last_save_time, tick_store, order,
                   shutdown_event, exit, feedBatch, db, log, nForced, nClose,
                   nSignals, nFailures, nTicks, budget, lastCall, failed,
                   hist, nDrift>>

\* Lines 86-87: sqlite3.connect(DB_FILE).
SaveConnect ==
    /\ TopIs("save_to_db_batch", "connect")
    /\ stack' = SetTop([Top EXCEPT !.pc = "row", !.conn = TRUE, !.i = 1])
    /\ UNCHANGED <<now, START_TIME, sql, last_save_time, tick_store, order, lock,
                   shutdown_event, exit, feedBatch, db, log, nForced, nClose,
                   nSignals, nFailures, nTicks, budget, attempts, lastCall, failed,
                   hist, nDrift>>

\* Lines 89-118: one iteration of the loop over tick_store.items().
SaveRow ==
    /\ TopIs("save_to_db_batch", "row")
    /\ Top.i <= Len(order)
    /\ LET tok  == order[Top.i]
           data == tick_store[tok]
           r    == ExecInsert(Top, db, Row(Top, tok, data, now))
       IN  IF data.ltp = None
           THEN stack' = SetTop([Top EXCEPT !.i = @ + 1]) /\ db' = db
           ELSE stack' = SetTop([r.frame EXCEPT !.i = @ + 1]) /\ db' = r.db
    /\ UNCHANGED <<now, START_TIME, sql, last_save_time, tick_store, order, lock,
                   shutdown_event, exit, feedBatch, log, nForced, nClose,
                   nSignals, nFailures, nTicks, budget, attempts, lastCall, failed,
                   hist, nDrift>>

\* Line 120: conn.commit(), after the last iteration.
SaveCommit ==
    /\ TopIs("save_to_db_batch", "row")
    /\ Top.i > Len(order)
    /\ db' = Commit(Top, db)
    /\ stack' = SetTop([Top EXCEPT !.pc = "finish", !.rows = <<>>])
    /\ UNCHANGED <<now, START_TIME, sql, last_save_time, tick_store, order, lock,
                   shutdown_event, exit, feedBatch, log, nForced, nClose,
                   nSignals, nFailures, nTicks, budget, attempts, lastCall, failed,
                   hist, nDrift>>

\* Lines 121-123: conn.close(), the print, and the end of the with block.
SaveFinish ==
    /\ TopIs("save_to_db_batch", "finish")
    /\ stack' = Return(stack)
    /\ lock' = "free"
    /\ UNCHANGED <<now, START_TIME, sql, last_save_time, tick_store, order,
                   shutdown_event, exit, feedBatch, db, log, nForced, nClose,
                   nSignals, nFailures, nTicks, budget, attempts, lastCall, failed,
                   hist, nDrift>>

\* sqlite3 raises from connect (86), execute (105, 115) or commit (120): the
\* exception leaves save_to_db_batch, whose with block releases the lock; the
\* connection is never committed.
StorageError ==
    /\ Alive
    /\ Top.fn = "save_to_db_batch"
    /\ Top.pc \in {"connect", "row"}
    /\ nFailures < budget.failures
    /\ nFailures' = nFailures + 1
    /\ failed' = failed \cup {Top.batch}
    /\ attempts' = [attempts EXCEPT ![Top.batch].outcome = "error",
                                    ![Top.batch].lost = Len(Top.rows)]
    /\ stack' = Raise(stack, "Exception")
    /\ lock' = LockAfter(stack')
    /\ exit' = ExitAfter(stack', "Exception")
    /\ log' = log \cup RaiseLog(stack, "Exception")
    /\ UNCHANGED <<now, START_TIME, sql, last_save_time, tick_store, order,
                   shutdown_event, feedBatch, db, nForced, nClose, nSignals,
                   nTicks, budget, lastCall, hist, nDrift>>

\* ------------------------------------------------------- specifications
Feed == OnTicksAcquire \/ OnTicksApply \/ OnTicksRelease

Driver == MainLoop \/ MainRuntime \/ MainClosed \/ MainSave \/ MainSleep

Shutdown == GsFlush \/ GsClose \/ GsExit

Save == SaveGate \/ SaveLock \/ SaveConnect \/ SaveRow \/ SaveCommit \/ SaveFinish

Next ==
    \/ ClockTick
    \/ Feed
    \/ Driver
    \/ MainFatal
    \/ Signal
    \/ Shutdown
    \/ Save
    \/ StorageError

Spec == Init /\ [][Next]_vars

\* The aggregator and the flush without signals or storage errors, with a
\* feed long enough to fill a window and evict from it.
InitAgg == InitWith(Budget(MaxAggTicks, 0, 0))

NextAgg == ClockTick \/ Feed \/ Driver \/ Shutdown \/ Save

SpecAgg == InitAgg /\ [][NextAgg]_vars

\* Shutdown under two signals, with a short feed.
InitSig == InitWith(Budget(MaxSigTicks, MaxSigSignals, MaxFailures))

SpecSig == InitSig /\ [][Next]_vars

\* ================================================================ claims
SaveFrames == { k \in 1..Len(stack) : stack[k].fn = "save_to_db_batch" }

\* C1: one process run performs exactly one forced flush and exactly one
\* feed close, whatever the interleaving of shutdown triggers: never more
\* than one of either, and one of each when the process has exited.
C1_ExactlyOneFlushAndClose ==
    /\ nForced <= 1
    /\ nClose <= 1
    /\ exit = "exit0" => (nForced = 1 /\ nClose = 1)

Rng(q) == { q[j] : j \in 1..Len(q) }

\* The rows of the open transactions, and every row written so far.
PendingRows == UNION { Rng(stack[k].rows) : k \in SaveFrames }

AllRows == Rng(db) \cup PendingRows

Attempts == 1..Len(attempts)

\* C2: the flush path never holds the instrument-state lock while a storage
\* connection is open or a row is written, so that on_ticks never waits on
\* the lock for the duration of storage I/O.
C2_StorageIoOutsideLock ==
    \A k \in SaveFrames :
        stack[k].locked => ~stack[k].conn /\ stack[k].rows = <<>>

C4_ForcedFlushAlwaysAttempts ==
    /\ lastCall.force => lastCall.passed
    /\ Cardinality({ b \in Attempts : attempts[b].force }) <= nForced
    /\ \A b \in Attempts :
          attempts[b].force /\ attempts[b].outcome # "waiting" =>
              (attempts[b].outcome = "nothing" <=> attempts[b].found = 0)

\* A forced flush before the session opens, at the very instant of process
\* start (no time since last_save_time was set), has committed a row.
C4_Witness ==
    \E b \in Attempts :
        /\ attempts[b].force
        /\ attempts[b].t - attempts[b].prev = 0
        /\ attempts[b].t < MARKET_START
        /\ \E r \in Rng(db) : r.batch = b

\* The window a flush averages for a token: its last min(k, N) ticks.
LastN(h) == SubSeq(h, Len(h) - Min2(Len(h), ROLLING_WINDOW) + 1, Len(h))

SumBuy(w) == Sum([i \in 1..Len(w) |-> w[i].total_buy_quantity])
SumSell(w) == Sum([i \in 1..Len(w) |-> w[i].total_sell_quantity])

\* a (in hundredths) is s / n at the two decimals a row reports.
IsAverage(a, s, n) ==
    LET d == 100 * s - a * n
    IN  2 * d <= n /\ 2 * (0 - d) <= n

\* C5: the buy and sell averages of a row a flush writes are sum / len over
\* exactly the last min(k, N) quantities ingested for its instrument, at the
\* two decimals a row reports; its price and volume are the latest tick's;
\* buy quantities 10 then 20 give 15.00 with last price 101.
C5_RollingAverage ==
    \A r \in PendingRows :
        LET h == hist[r.token]
            w == LastN(h)
        IN  /\ Len(h) > 0
            /\ Len(w) = Min2(Len(h), ROLLING_WINDOW)
            /\ IsAverage(r.avg_buy_qty, SumBuy(w), Len(w))
            /\ IsAverage(r.avg_sell_qty, SumSell(w), Len(w))
            /\ r.ltp = h[Len(h)].last_price
            /\ r.volume = h[Len(h)].volume_traded
            /\ (h = <<Tick(1, 100, 7, 10, 30), Tick(1, 101, 8, 20, 50)>>
                  => r.avg_buy_qty = 1500 /\ r.ltp = 101)

\* A flush writes the row of an instrument that has ticked more often than
\* the window holds, and the evicted quantities would have changed the average.
C5_Witness ==
    \E r \in PendingRows :
        LET h == hist[r.token]
        IN  /\ Len(h) > ROLLING_WINDOW
            /\ ~IsAverage(r.avg_buy_qty, SumBuy(h), Len(h))

\* C6: the phase is a function of the clock and the start time: PRE before
\* the session, LIVE in [start, end), POST from the end on, and POST once
\* the runtime limit is reached; the driver loop acts on it: a poll that reads
\* the limit reached shuts down and goes no further, a market-close shutdown
\* happens at or after the end, a periodic flush passes only inside [start, end).
C6_Phase ==
    LET elapsed == now - START_TIME
        polled  == stack[1].t - START_TIME
    IN  /\ elapsed >= MAX_RUNTIME => Phase(now, START_TIME) = "POST"
        /\ now >= MARKET_END => Phase(now, START_TIME) = "POST"
        /\ elapsed < MAX_RUNTIME /\ now < MARKET_START =>
               Phase(now, START_TIME) = "PRE"
        /\ elapsed < MAX_RUNTIME /\ MARKET_START <= now /\ now < MARKET_END =>
               Phase(now, START_TIME) = "LIVE"
        /\ market_phase(now) = "PRE" <=> now < MARKET_START
        /\ market_phase(now) = "LIVE" <=> (MARKET_START <= now /\ now < WS1_END)
        /\ market_phase(now) = "POST" <=> now >= WS1_END
        /\ Alive /\ stack[1].pc \in {"closed", "save", "sleep"} =>
               polled < MAX_RUNTIME
        /\ \A k \in 1..Len(stack) :
              /\ stack[k].reason = "max runtime reached" => polled >= MAX_RUNTIME
              /\ stack[k].reason = "market closed" => now >= MARKET_END
        /\ ~lastCall.force /\ lastCall.passed =>
               MARKET_START <= lastCall.t /\ lastCall.t < MARKET_END

\* The driver loop shuts down for the runtime limit while the clock is still
\* inside the session.
C6_Witness ==
    /\ Alive
    /\ \E k \in 1..Len(stack) : stack[k].reason = "max runtime reached"
    /\ MARKET_START <= stack[1].t /\ stack[1].t < MARKET_END

\* C7: a storage failure in a periodic flush is not fatal: it is logged,
\* last_save_time has advanced to the attempt, and the driver loop keeps
\* running (it neither enters its fatal handler nor shuts down for it).
C7_PeriodicFailureNotFatal ==
    \A b \in failed :
        ~attempts[b].force =>
            /\ log # {}
            /\ last_save_time >= attempts[b].t
            /\ "Fatal error" \notin log
            /\ Alive => stack[1].pc \in TryPcs
            /\ \A k \in 1..Len(stack) : stack[k].reason # "exception"

IsPrefix(a, b) == Len(a) <= Len(b) /\ SubSeq(b, 1, Len(a)) = a

\* No row of a failed attempt is durable, and an open transaction has
\* nothing durable yet.
C9_NothingOfAFailedBatch ==
    /\ \A r \in Rng(db) : r.batch \notin failed
    /\ \A k \in SaveFrames :
          stack[k].rows # <<>> => \A r \in Rng(db) : r.batch # stack[k].batch

\* The durable rows only grow, by all the rows of one attempt at once.
C9_OneCommit ==
    /\ IsPrefix(db, db')
    /\ db' # db =>
          \A i \in (Len(db) + 1)..Len(db') :
              /\ db'[i].batch = db'[Len(db')].batch
              /\ \A r \in Rng(db) : r.batch # db'[i].batch

\* C9: a flush writes its rows in one transaction with one commit: if a row
\* of the batch fails, none of its rows becomes durable, and the rows earlier
\* flushes committed stay as they are.
C9_SingleTransaction == []C9_NothingOfAFailedBatch /\ [][C9_OneCommit]_vars

\* A flush failed after writing a row, with rows of an earlier flush durable.
C9_Witness ==
    /\ db # <<>>
    /\ \E b \in failed : attempts[b].lost >= 1

\* C10: all rows written by one flush carry the same timestamp.
C10_OneTimestampPerBatch ==
    \A r1, r2 \in AllRows : r1.batch = r2.batch => r1.timestamp = r2.timestamp

\* ------------------------------------------------------------- progress
\* The main thread runs whenever it has a statement it can run, and on_ticks,
\* once it has the lock, finishes its batch.  Ticks, signals, storage errors
\* and clock drift are the environment's: nothing obliges them to happen.
MainThread == Driver \/ MainFatal \/ Shutdown \/ Save

Fairness == WF_vars(MainThread) /\ WF_vars(OnTicksApply \/ OnTicksRelease)

InitLive == InitWith(Budget(MaxSigTicks, MaxSignals, MaxFailures))

SpecLive == InitLive /\ [][Next]_vars /\ Fairness

\* graceful_shutdown has been called and has not finished.
ShutdownStarted ==
    \E k \in 1..Len(stack) : stack[k].fn = "graceful_shutdown"

\* sys.exit(0) ended the process after a forced flush attempt and kws.close().
CleanTermination == exit = "exit0" /\ nForced >= 1 /\ nClose >= 1

\* C11: from every shutdown trigger (market close, runtime limit, a signal at
\* any point of the driver loop, also inside a periodic flush, or a fatal
\* error of the loop) the process eventually terminates cleanly, after a
\* forced flush attempt and a feed close; shutdown never hangs.
C11_ShutdownCompletes == ShutdownStarted ~> CleanTermination

\* ------------------------------------------------- the SQL of a table name
\* Lines 102-118 as text: the statements are built by f-string interpolation
\* of table_name between two double quotes, and sqlite reads them back.  A
\* statement is a sequence of lexical pieces: the fixed parts are one piece
\* each, the table name is one piece per character.
Quote == "\""

\* The characters a symbol of tikers.db can be made of.
Chars == {"A", "2", " ", "-", Quote}

Symbols == UNION { [1..n -> Chars] : n \in 1..MaxSymbolLen }

\* token_to_symbol as loaded from the CSV: any tokens, each with its own symbol.
Universes ==
    { u \in UNION { [D -> Symbols] : D \in SUBSET Tokens } :
        \A a, b \in DOMAIN u : a # b => u[a] # u[b] }

\* str(token), character by character.
RECURSIVE StrChars(_)
StrChars(n) ==
    IF n < 10 THEN <<Digits[n + 1]>>
    ELSE StrChars(n \div 10) \o <<Digits[(n % 10) + 1]>>

\* Line 102 for a loaded universe u: token_to_symbol.get(token, str(token)).
table_name(u, tok) == IF tok \in DOMAIN u THEN u[tok] ELSE StrChars(tok)

\* Lines 105-113 and 115-118: the statement texts.
CreateStatement(name) ==
    <<"CREATE TABLE IF NOT EXISTS", Quote>> \o name \o <<Quote, "(columns)">>

InsertStatement(name) ==
    <<"INSERT INTO", Quote>> \o name \o <<Quote, "VALUES (?, ?, ?, ?, ?)">>

\* sqlite's tokenizer inside a double-quoted identifier, from position p: two
\* quotes in a row are one quote character of the identifier, a single quote
\* ends it, and the end of the text before that is an error.
RECURSIVE ReadQuoted(_, _, _)
ReadQuoted(s, p, acc) ==
    IF p > Len(s) THEN [ok |-> FALSE, ident |-> acc, next |-> p]
    ELSE IF s[p] # Quote THEN ReadQuoted(s, p + 1, Append(acc, s[p]))
    ELSE IF p + 1 <= Len(s) /\ s[p + 1] = Quote
         THEN ReadQuoted(s, p + 2, Append(acc, Quote))
         ELSE [ok |-> TRUE, ident |-> acc, next |-> p + 1]

\* sqlite's parse of a statement that is to read: head "identifier" tail.
Prepare(s, head, tail) ==
    IF Len(s) < 2 \/ s[1] # head \/ s[2] # Quote
    THEN [ok |-> FALSE, table |-> <<>>]
    ELSE LET r == ReadQuoted(s, 3, <<>>)
         IN  [ok    |-> r.ok /\ SubSeq(s, r.next, Len(s)) = <<tail>>,
              table |-> r.ident]

\* The flush of a store in which every token has ticked.
FlushOrder == <<1, 2>>

InitSql ==
    /\ StateAtLoop(Budget(0, 0, 0))
    /\ sql \in { [NoSql EXCEPT !.universe = u] : u \in Universes }

\* Lines 105-113: c.execute(CREATE TABLE IF NOT EXISTS "{table_name}" ...).
SqlCreate ==
    /\ sql.pc = "create"
    /\ sql.i <= Len(FlushOrder)
    /\ LET name == table_name(sql.universe, FlushOrder[sql.i])
           r    == Prepare(CreateStatement(name),
                           "CREATE TABLE IF NOT EXISTS", "(columns)")
       IN  sql' = IF r.ok
                  THEN [sql EXCEPT !.pc = "insert", !.schema = @ \cup {r.table}]
                  ELSE [sql EXCEPT !.pc = "error"]
    /\ UNCHANGED <<now, START_TIME, last_save_time, tick_store, order, lock,
                   shutdown_event, stack, exit, feedBatch, db, log, nForced,
                   nClose, nSignals, nFailures, nTicks, budget, attempts,
                   lastCall, failed, hist, nDrift>>

\* Lines 115-118: c.execute(INSERT INTO "{table_name}" VALUES (?, ?, ?, ?, ?)).
SqlInsert ==
    /\ sql.pc = "insert"
    /\ LET tok  == FlushOrder[sql.i]
           name == table_name(sql.universe, tok)
           r    == Prepare(InsertStatement(name),
                           "INSERT INTO", "VALUES (?, ?, ?, ?, ?)")
       IN  sql' = IF r.ok /\ r.table \in sql.schema
                  THEN [sql EXCEPT !.pc = "create", !.i = @ + 1,
                                   !.rows = Append(@, [token |-> tok,
                                                       table |-> r.table])]
                  ELSE [sql EXCEPT !.pc = "error"]
    /\ UNCHANGED <<now, START_TIME, last_save_time, tick_store, order, lock,
                   shutdown_event, stack, exit, feedBatch, db, log, nForced,
                   nClose, nSignals, nFailures, nTicks, budget, attempts,
                   lastCall, failed, hist, nDrift>>

NextSql == SqlCreate \/ SqlInsert

SpecSql == InitSql /\ [][NextSql]_vars

\* C12: table identifiers are safe for every symbol: sqlite accepts the
\* statements built from any symbol (spaces, hyphens, quotes), the table a
\* row goes to is named exactly by the symbol (or by the fallback name of an
\* unknown token), so no character of the symbol changes the statement's
\* structure, and two instruments never share a table.
C12_SafeTableIdentifiers ==
    /\ sql.pc # "error"
    /\ \A j \in 1..Len(sql.rows) :
          sql.rows[j].table = table_name(sql.universe, sql.rows[j].token)
    /\ \A j, k \in 1..Len(sql.rows) :
          sql.rows[j].token # sql.rows[k].token =>
              sql.rows[j].table # sql.rows[k].table

\* C13: a flush never includes an instrument whose price has never been
\* set: every row written, durable or in an open transaction, belongs to an
\* instrument that has ticked and carries a price some ingested tick of that
\* instrument had.
C13_RowsHavePrices ==
    \A r \in AllRows :
        /\ r.ltp # None
        /\ hist[r.token] # <<>>
        /\ \E j \in 1..Len(hist[r.token]) : hist[r.token][j].last_price = r.ltp

\* A flush has committed the row of one instrument while the other had not
\* ticked, and wrote nothing for it.
C13_Witness ==
    /\ db # <<>>
    /\ \E tok \in Tokens :
          /\ hist[tok] = <<>>
          /\ \A r \in AllRows : r.token # tok

\* The driver loop has read the runtime limit reached or the market closed
\* at a poll and called graceful_shutdown (lines 199-200, 203-204).
PostObserved ==
    /\ Len(stack) >= 2
    /\ stack[1].fn = "main"
    /\ stack[2].fn = "graceful_shutdown"
    /\ stack[2].reason \in {"max runtime reached", "market closed"}

\* Once POST is observed the loop never runs another statement: its shutdown
\* call stays on the stack until the process ends, so there is no periodic
\* flush and no return to LIVE processing.
C14_NeverResumes == PostObserved => (PostObserved' \/ ~Alive')

\* From the observation on there is at most one forced flush, and exactly one
\* when the process ends.
C14_OneForcedFlush ==
    PostObserved =>
        /\ nForced' <= 1
        /\ ~Alive' => nForced' = 1 /\ exit' = "exit0"

\* C14: POST is terminal: once the driver loop observes POST or the runtime
\* limit at a poll, it performs no further periodic flush, performs the
\* forced flush exactly once on that poll, and never returns to LIVE
\* processing, whatever the clock reads later.
C14_PostIsTerminal == [][C14_NeverResumes /\ C14_OneForcedFlush]_vars

\* The step in which the call on top of the stack leaves its gate (a signal
\* would push a frame on top of it instead).
LeavesGate ==
    /\ TopIs("save_to_db_batch", "gate")
    /\ stack' # stack
    /\ Len(stack') <= Len(stack)

\* One step of the program, seen from last_save_time: a call that passes the
\* gate sets it to the clock value of the attempt, and nothing else moves it.
C15_GateStep ==
    IF LeavesGate
          /\ (Top.force \/ (is_market_open(now)
                               /\ now - last_save_time >= SAVE_INTERVAL))
    THEN last_save_time' = now /\ Len(attempts') = Len(attempts) + 1
    ELSE last_save_time' = last_save_time /\ Len(attempts') = Len(attempts)

\* last_save_time is the time of the latest attempt, whatever became of it:
\* still writing, committed, failed, or ended on an empty store.
C15_TimeOfLatestAttempt ==
    last_save_time =
        IF attempts = <<>> THEN START_TIME ELSE attempts[Len(attempts)].t

\* C15: last_save_time changes exactly when a flush attempt passes the gate:
\* it is set to the attempt's time whether the write then succeeds, fails or
\* finds nothing to write, and every call the gate rejects leaves it as it was.
C15_LastSaveTime == []C15_TimeOfLatestAttempt /\ [][C15_GateStep]_vars

\* A periodic attempt moved last_save_time and then failed in storage with
\* nothing committed; last_save_time is still the time of that attempt.
C15_Witness ==
    \E b \in failed :
        /\ ~attempts[b].force
        /\ attempts[b].prev < attempts[b].t
        /\ last_save_time = attempts[b].t
        /\ db = <<>>

\* The flushes in progress: the calls of save_to_db_batch that have passed
\* the gate and have not returned.
InFlight == { k \in SaveFrames : stack[k].pc # "gate" }

\* C16: at most one flush is in progress at any time: a forced flush called
\* by the signal handler never starts while a periodic flush of the driver
\* loop is still in flight.
C16_OneFlushInProgress == Cardinality(InFlight) <= 1

\* The ticks of r's instrument whose ingest had completed when r's flush took
\* the lock: the snapshot the row is to reflect.
Snap(r) == SubSeq(hist[r.token], 1, attempts[r.batch].seen[r.token])

\* Every row, durable or in an open transaction, is computed from its
\* snapshot alone: price and volume of the snapshot's last tick, averages of
\* the snapshot's last ROLLING_WINDOW quantities.
C17_RowsOfSnapshot ==
    \A r \in AllRows :
        LET h == Snap(r)
            w == LastN(h)
        IN  /\ Len(h) >= 1
            /\ r.ltp = h[Len(h)].last_price
            /\ r.volume = h[Len(h)].volume_traded
            /\ r.avg_buy_qty = Avg([i \in 1..Len(w) |-> w[i].total_buy_quantity])
            /\ r.avg_sell_qty = Avg([i \in 1..Len(w) |-> w[i].total_sell_quantity])

\* No ingest takes effect between a flush taking the lock and releasing it.
C17_NoIngestDuringFlush ==
    HoldsLock(stack) => hist' = hist /\ tick_store' = tick_store

\* C17: for every interleaving of on_ticks and a flush, each row reflects
\* exactly the ticks of its instrument ingested before the flush took its
\* snapshot and none ingested later, and its price, volume and both averages
\* come from the same point of the instrument's tick sequence.
C17_SnapshotConsistency ==
    []C17_RowsOfSnapshot /\ [][C17_NoIngestDuringFlush]_vars

\* A committed row whose instrument has ticked again since the snapshot, at
\* another price: the row still shows the snapshot.
C17_Witness ==
    \E r \in Rng(db) :
        /\ Len(hist[r.token]) > attempts[r.batch].seen[r.token]
        /\ r.ltp # hist[r.token][Len(hist[r.token])].last_price

\* ============================================================ kite_ws1.py
\* The first-half collector: the same store, on_ticks and lock, a driver loop
\* on market_phase with no runtime limit and no signal handler, a gate on the
\* interval alone, and a table name read with token_to_symbol[token].

\* kite_ws1.py 64-68: the gate.
Ws1GatePasses(force, t, last) == force \/ t - last >= SAVE_INTERVAL

Ws1SaveGate ==
    /\ TopIs("save_to_db_batch", "gate")
    /\ GateStep(Ws1GatePasses(Top.force, now, last_save_time))

\* kite_ws1.py 158-169: one poll of the loop, by phase.  PRE sleeps, LIVE
\* goes to the periodic flush, POST to the final one.
Ws1Phase ==
    /\ TopIs("main", "loop")
    /\ LET phase == market_phase(now)
       IN  stack' = SetTop([Top EXCEPT !.pc =
                        IF phase = "PRE" THEN "sleep"
                        ELSE IF phase = "LIVE" THEN "save" ELSE "final"])
    /\ UNCHANGED <<now, START_TIME, sql, last_save_time, tick_store, order, lock,
                   shutdown_event, exit, feedBatch, db, log, nForced, nClose,
                   nSignals, nFailures, nTicks, budget, attempts, lastCall,
                   failed, hist, nDrift>>

\* kite_ws1.py 172 and 180: save_to_db_batch(force=True).
Ws1Final ==
    /\ TopIs("main", "final")
    /\ stack' = Push(SaveFrame(TRUE))
    /\ nForced' = nForced + 1
    /\ UNCHANGED <<now, START_TIME, sql, last_save_time, tick_store, order, lock,
                   shutdown_event, exit, feedBatch, db, log, nClose, nSignals,
                   nFailures, nTicks, budget, attempts, lastCall, failed, hist,
                   nDrift>>

\* kite_ws1.py 173-176 and 181: kws.close(), then the script ends.
Ws1Close ==
    /\ TopIs("main", "close")
    /\ nClose' = nClose + 1
    /\ stack' = <<>>
    /\ exit' = "loop_end"
    /\ UNCHANGED <<now, START_TIME, sql, last_save_time, tick_store, order, lock,
                   shutdown_event, feedBatch, db, log, nForced, nSignals,
                   nFailures, nTicks, budget, attempts, lastCall, failed, hist,
                   nDrift>>

\* kite_ws1.py 77-106: one iteration of the loop over tick_store.items().
\* Line 90 is token_to_symbol[token]: a token that is not a key raises
\* KeyError, which no except clause of the script takes (line 178 takes
\* KeyboardInterrupt only): the with block releases the lock, nothing is
\* committed, and the process dies with a traceback.
Ws1SaveRow ==
    /\ TopIs("save_to_db_batch", "row")
    /\ Top.i <= Len(order)
    /\ LET tok  == order[Top.i]
           data == tick_store[tok]
           r    == ExecInsert(Top, db, Row(Top, tok, data, now))
       IN  IF data.ltp = None
           THEN /\ stack' = SetTop([Top EXCEPT !.i = @ + 1])
                /\ UNCHANGED <<db, lock, exit, log>>
           ELSE IF tok \notin DOMAIN token_to_symbol
           THEN /\ stack' = <<>>
                /\ lock' = "free"
                /\ exit' = "error"
                /\ log' = log \cup {"KeyError"}
                /\ db' = db
           ELSE /\ stack' = SetTop([r.frame EXCEPT !.i = @ + 1])
                /\ db' = r.db
                /\ UNCHANGED <<lock, exit, log>>
    /\ UNCHANGED <<now, START_TIME, sql, last_save_time, tick_store, order,
                   shutdown_event, feedBatch, nForced, nClose, nSignals,
                   nFailures, nTicks, budget, attempts, lastCall, failed, hist,
                   nDrift>>

\* Ctrl-C: with no handler installed, SIGINT raises KeyboardInterrupt in the
\* main thread, inside the try block (lines 157-176); the except clause at
\* line 178 runs the final flush and the close.
Ws1Interrupt ==
    /\ Alive
    /\ stack[1].pc \in {"loop", "save", "sleep", "final", "close"}
    /\ nSignals < budget.signals
    /\ nSignals' = nSignals + 1
    /\ stack' = <<[MainFrame("final") EXCEPT !.reason = "KeyboardInterrupt"]>>
    /\ lock' = LockAfter(stack')
    /\ UNCHANGED <<now, START_TIME, sql, last_save_time, tick_store, order,
                   shutdown_event, exit, feedBatch, db, log, nForced, nClose,
                   nFailures, nTicks, budget, attempts, lastCall, failed, hist,
                   nDrift>>

InitWs1 == InitWith(Budget(MaxTicks, MaxSignals, 0))

NextWs1 ==
    \/ ClockTick
    \/ Feed
    \/ Ws1Phase
    \/ MainSave
    \/ MainSleep
    \/ Ws1Final
    \/ Ws1Close
    \/ Ws1Interrupt
    \/ Ws1SaveGate
    \/ SaveLock
    \/ SaveConnect
    \/ Ws1SaveRow
    \/ SaveCommit
    \/ SaveFinish

SpecWs1 == InitWs1 /\ [][NextWs1]_vars

\* An instrument outside the loaded universe has ticked.
UnknownStored == \E tok \in DOMAIN tick_store : tok \notin DOMAIN token_to_symbol

\* C18: a tick for a token outside the loaded universe never causes a crash:
\* it is dropped at ingestion or stored and flushed under a fallback name,
\* and neither its ingest nor any later flush raises an error because of it.
C18_UnknownTokenNeverCrashes ==
    UnknownStored => exit # "error" /\ "KeyError" \notin log

\* The rows a flush of the present store would write: one per entry whose
\* price is set.
SnapshotRows == { tok \in DOMAIN tick_store : tick_store[tok].ltp # None }

\* C19: a flush that passes the gate and finds a snapshot of zero rows does
\* nothing to storage: it opens no connection, creates no table and writes
\* no row.  A snapshot has zero rows exactly when the store is empty, the
\* attempt then ends at once, and a connection is only ever open in an
\* attempt that found entries.
C19_EmptySnapshotNoStorage ==
    /\ SnapshotRows = DOMAIN tick_store
    /\ \A b \in Attempts :
          attempts[b].found = 0 /\ attempts[b].outcome # "waiting" =>
              /\ attempts[b].outcome = "nothing"
              /\ \A r \in AllRows : r.batch # b
    /\ \A k \in SaveFrames :
          stack[k].conn \/ stack[k].pc \in {"connect", "row", "finish"} =>
              attempts[stack[k].batch].found > 0

\* A periodic flush passed the gate inside the session, found the store
\* empty and returned; storage is untouched.
C19_Witness ==
    /\ db = <<>>
    /\ \E b \in Attempts :
          /\ ~attempts[b].force
          /\ attempts[b].outcome = "nothing"
          /\ last_save_time = attempts[b].t
    /\ TopIs("main", "sleep")

\* The attempts that have committed.
Committed == { db[i].batch : i \in 1..Len(db) }

\* The durable rows attempt b wrote for token tok.
RowsOf(b, tok) == { i \in 1..Len(db) : db[i].batch = b /\ db[i].token = tok }

\* Every committed flush wrote one row, in the instrument's own table, for
\* each instrument that had ticked when the flush took its snapshot, whether
\* or not it has ticked since the flush before, and no other row.
C20_OneRowPerInstrument ==
    \A b \in Committed : \A tok \in Tokens :
        /\ Cardinality(RowsOf(b, tok)) =
               IF attempts[b].seen[tok] > 0 THEN 1 ELSE 0
        /\ \A i \in RowsOf(b, tok) : db[i].table = TableName(tok)

\* An entry of the store is never removed, its price and volume are never
\* unset, and its windows never get shorter.
C20_NeverRemoved ==
    \A tok \in DOMAIN tick_store :
        /\ tok \in DOMAIN tick_store'
        /\ tick_store'[tok].ltp # None /\ tick_store'[tok].volume # None
        /\ Len(tick_store'[tok].buy_qty) >= Len(tick_store[tok].buy_qty)
        /\ Len(tick_store'[tok].sell_qty) >= Len(tick_store[tok].sell_qty)

\* C20: instrument states are never removed or reset: once an instrument has
\* ticked, every later flush that commits appends exactly one row to its
\* table, also when no tick for it arrived since the previous flush.
C20_RowPerFlush == []C20_OneRowPerInstrument /\ [][C20_NeverRemoved]_vars

\* Two flushes have committed a row for the same instrument with no tick for
\* it in between: the second row repeats the first one's price and averages.
C20_Witness ==
    \E i, j \in 1..Len(db) :
        /\ db[i].batch < db[j].batch
        /\ db[i].token = db[j].token
        /\ attempts[db[i].batch].seen[db[i].token]
              = attempts[db[j].batch].seen[db[j].token]
        /\ db[i].ltp = db[j].ltp
        /\ db[i].avg_buy_qty = db[j].avg_buy_qty

\* C21: because last_save_time starts at the process start time, no
\* non-forced flush passes the gate, and so none writes a row, earlier than
\* SAVE_INTERVAL after the process started, also when the process starts
\* inside the session and ticks have been ingested already.
C21_NoEarlyPeriodicFlush ==
    /\ \A b \in Attempts :
          ~attempts[b].force => attempts[b].t >= START_TIME + SAVE_INTERVAL
    /\ \A r \in AllRows :
          ~r.force =>
              /\ r.gate >= START_TIME + SAVE_INTERVAL
              /\ r.timestamp >= START_TIME + SAVE_INTERVAL

\* The process started inside the session, a tick has been ingested, and the
\* driver loop's flush, called before a full interval had passed since the
\* start, was rejected by the gate with nothing written.
C21_Witness ==
    /\ START_TIME = MARKET_START
    /\ order # <<>>
    /\ ~lastCall.force /\ ~lastCall.passed
    /\ is_market_open(lastCall.t)
    /\ lastCall.t < START_TIME + SAVE_INTERVAL
    /\ TopIs("main", "sleep")
    /\ AllRows = {}

====
